---- MODULE Spec2Model ----
(***************************************************************************)
(* A model of dex-parser's class module (src/src/class.rs):                *)
(*   - ClassDefItemIter, the iterator over the 32-byte class_def_items;    *)
(*   - ClassDataItem::try_from_ctx, the decoder of a class body;           *)
(*   - Class::try_from_dex, the assembly of a Class from a ClassDefItem;   *)
(*   - Class::fields / Class::methods, the chained member views.           *)
(* A uint (u32) that is only compared or bit-tested is the pair            *)
(* <<high 16 bits, low 16 bits>>; counts and offsets the code computes     *)
(* with are naturals.                                                      *)
(***************************************************************************)
EXTENDS Integers, Sequences, FiniteSets, TLC

VARIABLES
    it_source,   \* ClassDefItemIter.source: the bytes of the dex file
    it_offset,   \* ClassDefItemIter.offset
    it_len,      \* ClassDefItemIter.len: records still to yield
    it_endian,   \* ClassDefItemIter.endian
    new_offset,  \* the offset ClassDefItemIter::new was given
    new_len,     \* the len ClassDefItemIter::new was given
    it_items,    \* what the calls of next() returned so far, in order
    it_offs,     \* the value of offset at the start of each call of next()
    it_lens,     \* the value of len at the start of each call of next()
    it_read,     \* the end (exclusive) of the highest byte range read
    cd_source,   \* the bytes ClassDataItem::try_from_ctx is given
    cd_input,    \* the four member lists those bytes were written from
    cd_result,   \* what try_from_ctx returned, once it has run
    dex,         \* the Dex that Class::try_from_dex resolves against
    class_def,   \* the ClassDefItem given to Class::try_from_dex
    cl_input,    \* the member lists the class data of dex was written from
    cl_result,   \* what try_from_dex returned and the lookups it made
    class,       \* a Class whose fields() and methods() are iterated
    fields_it,   \* the Chain iterator fields() returned
    methods_it,  \* the Chain iterator methods() returned
    fields_out,  \* what the calls of next() on fields_it returned, in order
    methods_out  \* what the calls of next() on methods_it returned, in order

iter_vars == <<it_source, it_offset, it_len, it_endian, new_offset, new_len,
               it_items, it_offs, it_lens, it_read>>

body_vars == <<cd_source, cd_input, cd_result>>

class_vars == <<dex, class_def, cl_input, cl_result>>

member_vars == <<class, fields_it, methods_it, fields_out, methods_out>>

vars == <<iter_vars, body_vars, class_vars, member_vars>>

----------------------------------------------------------------------------
(* Bounds of the model. *)

MaxBuf == 132        \* longest source buffer, in bytes
MaxStart == 2        \* largest start offset of the class_defs section
MaxLen == 4          \* largest record count given to ClassDefItemIter::new
MaxSeed == 2         \* number of byte patterns filling a buffer
ExtraCalls == 2      \* calls of next() made after the iterator is exhausted
MaxFields == 2       \* most entries of a field list of a class body
MaxMethods == 1      \* most entries of a method list of a class body
MaxCut == 1          \* most bytes cut from the end of a class body
ClassFields == 1     \* most static fields of the class given to try_from_dex
MaxStaticValues == 1 \* longest static value array of the dex
MaxMembers == 2      \* most fields of a field list of an iterated Class

----------------------------------------------------------------------------
(* Bytes and fixed-width reads (scroll's Pread, as ClassDefItem derives it). *)

Max(a, b) == IF a > b THEN a ELSE b

\* The p-th byte (0-based) of the buffer pattern `seed`.
PatternByte(seed, p) == (seed * 37 + p * (2 * seed + 1) * 11 + (p \div 32) * 5) % 256

MkBuf(n, seed) == [i \in 1..n |-> PatternByte(seed, i - 1)]

\* Number of bytes of a ClassDefItem: eight uint fields.
FieldSize == 4
NumFields == 8
RecordSize == NumFields * FieldSize

\* A u32 read at 0-based position p of src, as <<high half, low half>>.
ReadU32(src, p, endian) ==
    LET b0 == src[p + 1]
        b1 == src[p + 2]
        b2 == src[p + 3]
        b3 == src[p + 4]
    IN  IF endian = "Little"
        THEN <<b3 * 256 + b2, b1 * 256 + b0>>
        ELSE <<b0 * 256 + b1, b2 * 256 + b3>>

\* The eight fields of the record at p, in declaration order.
ReadClassDefItem(src, p, endian) ==
    [class_idx         |-> ReadU32(src, p, endian),
     access_flags      |-> ReadU32(src, p + 4, endian),
     superclass_idx    |-> ReadU32(src, p + 8, endian),
     interfaces_off    |-> ReadU32(src, p + 12, endian),
     source_file_idx   |-> ReadU32(src, p + 16, endian),
     annotations_off   |-> ReadU32(src, p + 20, endian),
     class_data_off    |-> ReadU32(src, p + 24, endian),
     static_values_off |-> ReadU32(src, p + 28, endian)]

\* The first field (0-based) that cannot be read from `avail` bytes, or NumFields.
FirstShortField(avail) ==
    IF avail >= RecordSize THEN NumFields ELSE avail \div FieldSize

\* A gread_with that moves the offset past the slot even when the read fails.
gread_with_skip(src, off, endian) ==
    LET avail == Len(src) - off
        f == FirstShortField(avail)
    IN  IF off >= Len(src)
        THEN [ok |-> FALSE, err |-> [kind |-> "Scroll", why |-> "BadOffset", at |-> off],
              off |-> off + RecordSize, end |-> 0]
        ELSE IF f < NumFields
        THEN [ok |-> FALSE,
              err |-> [kind |-> "Scroll",
                       why |-> IF f * FieldSize >= avail THEN "BadOffset" ELSE "TooBig",
                       at |-> f * FieldSize],
              off |-> off + RecordSize, end |-> off + f * FieldSize]
        ELSE [ok |-> TRUE, val |-> ReadClassDefItem(src, off, endian),
              off |-> off + RecordSize, end |-> off + RecordSize]

\* source.gread_with::<ClassDefItem>(&mut offset, endian).map_err(Error::from):
\* the result, the offset afterwards and the end of the bytes read.  The offset
\* moves only when the read succeeds.
gread_with(src, off, endian) ==
    LET avail == Len(src) - off
        f == FirstShortField(avail)
    IN  IF off >= Len(src)
        THEN [ok |-> FALSE, err |-> [kind |-> "Scroll", why |-> "BadOffset", at |-> off],
              off |-> off, end |-> 0]
        ELSE IF f < NumFields
        THEN [ok |-> FALSE,
              err |-> [kind |-> "Scroll",
                       why |-> IF f * FieldSize >= avail THEN "BadOffset" ELSE "TooBig",
                       at |-> f * FieldSize],
              off |-> off, end |-> off + f * FieldSize]
        ELSE [ok |-> TRUE, val |-> ReadClassDefItem(src, off, endian),
              off |-> off + RecordSize, end |-> off + RecordSize]

----------------------------------------------------------------------------
(* ClassDefItemIter *)

Endians == {"Little", "Big"}

\* ClassDefItemIter::new(source, offset, len, endian)
ClassDefItemIter_new(source, offset, len, endian) ==
    /\ it_source = source
    /\ it_offset = offset
    /\ it_len = len
    /\ it_endian = endian

IdleIter ==
    /\ it_source = <<>> /\ it_offset = 0 /\ it_len = 0 /\ it_endian = "Little"
    /\ new_offset = 0 /\ new_len = 0
    /\ it_items = <<>> /\ it_offs = <<>> /\ it_lens = <<>> /\ it_read = 0

IdleBody ==
    /\ cd_source = <<>>
    /\ cd_input = <<>>
    /\ cd_result = [done |-> FALSE]

IdleClass ==
    /\ dex = <<>>
    /\ class_def = <<>>
    /\ cl_input = <<>>
    /\ cl_result = [done |-> FALSE]

IdleMembers ==
    /\ class = <<>>
    /\ fields_it = <<>> /\ methods_it = <<>>
    /\ fields_out = <<>> /\ methods_out = <<>>

InitIter ==
    /\ IdleBody
    /\ IdleClass
    /\ IdleMembers
    /\ \E n \in 0..MaxBuf, seed \in 1..MaxSeed, o \in 0..MaxStart,
          l \in 0..MaxLen, e \in Endians :
          /\ ClassDefItemIter_new(MkBuf(n, seed), o, l, e)
          /\ new_offset = o
          /\ new_len = l
    /\ it_items = <<>>
    /\ it_offs = <<>>
    /\ it_lens = <<>>
    /\ it_read = 0

\* A next() that reads with pread_with: the offset never moves.
next_step_pread(src, off, len, endian) ==
    IF len = 0
    THEN [item |-> [some |-> FALSE], off |-> off, len |-> len, end |-> 0]
    ELSE LET r == gread_with(src, off, endian)
         IN  [item |-> [some |-> TRUE, res |-> IF r.ok THEN [ok |-> TRUE, val |-> r.val]
                                                       ELSE [ok |-> FALSE, err |-> r.err]],
              off |-> off, len |-> len - 1, end |-> r.end]

\* A next() that ends the sequence at the first record it cannot read.
next_step_halt(src, off, len, endian) ==
    IF len = 0
    THEN [item |-> [some |-> FALSE], off |-> off, len |-> len, end |-> 0]
    ELSE LET r == gread_with(src, off, endian)
         IN  IF r.ok
             THEN [item |-> [some |-> TRUE, res |-> [ok |-> TRUE, val |-> r.val]],
                   off |-> r.off, len |-> len - 1, end |-> r.end]
             ELSE [item |-> [some |-> FALSE], off |-> r.off, len |-> 0, end |-> r.end]

\* The state next() leaves and the item it returns, from offset `off` and count `len`.
next_step(src, off, len, endian) ==
    IF len = 0
    THEN [item |-> [some |-> FALSE], off |-> off, len |-> len, end |-> 0]
    ELSE LET r == gread_with(src, off, endian)
         IN  [item |-> [some |-> TRUE, res |-> IF r.ok THEN [ok |-> TRUE, val |-> r.val]
                                                       ELSE [ok |-> FALSE, err |-> r.err]],
              off |-> r.off, len |-> len - 1, end |-> r.end]

\* <ClassDefItemIter as Iterator>::next
next ==
    /\ Len(it_items) < new_len + ExtraCalls
    /\ LET s == next_step(it_source, it_offset, it_len, it_endian)
       IN  /\ it_items' = Append(it_items, s.item)
           /\ it_offs' = Append(it_offs, it_offset)
           /\ it_lens' = Append(it_lens, it_len)
           /\ it_offset' = s.off
           /\ it_len' = s.len
           /\ it_read' = Max(it_read, s.end)
    /\ UNCHANGED <<it_source, it_endian, new_offset, new_len>>
    /\ UNCHANGED <<body_vars, class_vars, member_vars>>

NextIter == next

SpecIter == InitIter /\ [][NextIter]_vars

----------------------------------------------------------------------------
(* ClassDataItem: the class body *)

Ok(v, off) == [ok |-> TRUE, val |-> v, off |-> off]
Err(e) == [ok |-> FALSE, err |-> e]
None == [some |-> FALSE]
Some(v) == [some |-> TRUE, val |-> v]

\* `value` bound to the parameter of K: a let that evaluates it once.
Let(value, K(_)) == CHOOSE x \in {K(v) : v \in {value}} : TRUE

\* The ? of Rust: K of the result when it is Ok, the failure itself otherwise.
Try(r, K(_)) == Let(r, LAMBDA v : IF v.ok THEN K(v) ELSE v)

\* The bytes of src from 0-based position off on.
From(src, off) == SubSeq(src, off + 1, Len(src))

\* The unsigned LEB128 bytes of v (what a dex writer emits).
RECURSIVE EncodeUleb(_)
EncodeUleb(v) ==
    IF v < 128 THEN <<v>> ELSE <<128 + (v % 128)>> \o EncodeUleb(v \div 128)

\* Uleb128::read(source, offset): bytes give 7 bits each, low group first,
\* until a byte without the continuation bit; the offset moves past them.
\* (The values of the model stay far below the 64 bits scroll accepts.)
RECURSIVE uleb_loop(_, _, _, _)
uleb_loop(src, off, result, weight) ==
    IF off >= Len(src)
    THEN Err([kind |-> "Scroll", why |-> "BadOffset"])
    ELSE Let(result + (src[off + 1] % 128) * weight, LAMBDA r :
             IF src[off + 1] < 128 THEN Ok(r, off + 1)
             ELSE uleb_loop(src, off + 1, r, weight * 128))

Uleb128_read(src, off) == uleb_loop(src, off, 0, 1)

\* One encoded_field (index delta, access flags) or encoded_method (index
\* delta, access flags, code offset), read after an entry whose index is prev.
encoded_item(src, off, prev, kind) ==
    Try(Uleb128_read(src, off), LAMBDA d :
    Try(Uleb128_read(src, d.off), LAMBDA a :
        IF kind = "field"
        THEN Ok([id |-> prev + d.val, access_flags |-> a.val], a.off)
        ELSE Try(Uleb128_read(src, a.off), LAMBDA c :
                 Ok([id |-> prev + d.val, access_flags |-> a.val, code_off |-> c.val],
                    c.off))))

\* EncodedItemArray: n entries from one cursor, each index the previous
\* entry's index plus the delta read (the first from 0); the first failure
\* ends the array.
RECURSIVE encoded_items(_, _, _, _, _, _)
encoded_items(src, off, n, prev, kind, acc) ==
    IF n = 0 THEN Ok(acc, off)
    ELSE Try(encoded_item(src, off, prev, kind), LAMBDA e :
             encoded_items(src, e.off, n - 1, e.val.id, kind, Append(acc, e.val)))

\* encoded_array!(source, dex, offset, size): no array is read for size 0.
encoded_array(src, off, size, kind) ==
    IF size > 0
    THEN Try(encoded_items(src, off, size, 0, kind, <<>>), LAMBDA r : Ok(Some(r.val), r.off))
    ELSE Ok(None, off)

\* A try_from_ctx that sizes the static field array by the instance field count.
try_from_ctx_wrong_size(source) ==
    Try(Uleb128_read(source, 0), LAMBDA static_field_size :
    Try(Uleb128_read(source, static_field_size.off), LAMBDA instance_field_size :
    Try(Uleb128_read(source, instance_field_size.off), LAMBDA direct_methods_size :
    Try(Uleb128_read(source, direct_methods_size.off), LAMBDA virtual_methods_size :
    Try(encoded_array(source, virtual_methods_size.off, instance_field_size.val, "field"),
        LAMBDA static_fields :
    Try(encoded_array(source, static_fields.off, instance_field_size.val, "field"),
        LAMBDA instance_fields :
    Try(encoded_array(source, instance_fields.off, direct_methods_size.val, "method"),
        LAMBDA direct_methods :
    Try(encoded_array(source, direct_methods.off, virtual_methods_size.val, "method"),
        LAMBDA virtual_methods :
        Ok([static_fields |-> static_fields.val,
            instance_fields |-> instance_fields.val,
            direct_methods |-> direct_methods.val,
            virtual_methods |-> virtual_methods.val],
           virtual_methods.off)))))))))

\* ClassDataItem::try_from_ctx(source, dex): the four counts, then the four
\* arrays, all from one offset; Ok carries the item and the bytes consumed.
try_from_ctx(source) ==
    Try(Uleb128_read(source, 0), LAMBDA static_field_size :
    Try(Uleb128_read(source, static_field_size.off), LAMBDA instance_field_size :
    Try(Uleb128_read(source, instance_field_size.off), LAMBDA direct_methods_size :
    Try(Uleb128_read(source, direct_methods_size.off), LAMBDA virtual_methods_size :
    Try(encoded_array(source, virtual_methods_size.off, static_field_size.val, "field"),
        LAMBDA static_fields :
    Try(encoded_array(source, static_fields.off, instance_field_size.val, "field"),
        LAMBDA instance_fields :
    Try(encoded_array(source, instance_fields.off, direct_methods_size.val, "method"),
        LAMBDA direct_methods :
    Try(encoded_array(source, direct_methods.off, virtual_methods_size.val, "method"),
        LAMBDA virtual_methods :
        Ok([static_fields |-> static_fields.val,
            instance_fields |-> instance_fields.val,
            direct_methods |-> direct_methods.val,
            virtual_methods |-> virtual_methods.val],
           virtual_methods.off)))))))))

(* The class bodies the decoder is run on: written from four lists of
   ascending member indices, as a dex writer does. *)

\* Member indices: one-byte and two-byte deltas both occur.
MemberIds == {0, 1, 200}

\* The non-decreasing sequences over ids of length at most n.
AscSeqs(ids, n) ==
    UNION {{q \in [1..k -> ids] : \A i \in 1..(k - 1) : q[i] <= q[i + 1]} : k \in 0..n}

\* The access flags and code offset a member index is written with.
FlagsOf(id) == 1 + id
CodeOf(id) == 128 * (id + 1)

RECURSIVE EncodeList(_, _, _)
EncodeList(ids, prev, kind) ==
    IF ids = <<>> THEN <<>>
    ELSE EncodeUleb(Head(ids) - prev) \o EncodeUleb(FlagsOf(Head(ids)))
         \o (IF kind = "method" THEN EncodeUleb(CodeOf(Head(ids))) ELSE <<>>)
         \o EncodeList(Tail(ids), Head(ids), kind)

EncodeBody(in) ==
    EncodeUleb(Len(in.static_fields)) \o EncodeUleb(Len(in.instance_fields))
    \o EncodeUleb(Len(in.direct_methods)) \o EncodeUleb(Len(in.virtual_methods))
    \o EncodeList(in.static_fields, 0, "field") \o EncodeList(in.instance_fields, 0, "field")
    \o EncodeList(in.direct_methods, 0, "method") \o EncodeList(in.virtual_methods, 0, "method")

Bodies(nf, nm) ==
    [static_fields : AscSeqs(MemberIds, nf), instance_fields : AscSeqs(MemberIds, nf),
     direct_methods : AscSeqs(MemberIds, nm), virtual_methods : AscSeqs(MemberIds, nm)]

InitBody ==
    /\ IdleIter
    /\ IdleClass
    /\ IdleMembers
    /\ \E in \in Bodies(MaxFields, MaxMethods), cut \in 0..MaxCut :
          /\ cd_input = in
          /\ cd_source = SubSeq(EncodeBody(in), 1, Len(EncodeBody(in)) - cut)
    /\ cd_result = [done |-> FALSE]

\* source.pread_with(0, dex) of a ClassDataItem
decode_class_data ==
    /\ ~cd_result.done
    /\ cd_result' = [done |-> TRUE, res |-> try_from_ctx(cd_source)]
    /\ UNCHANGED <<cd_source, cd_input>>
    /\ UNCHANGED <<iter_vars, class_vars, member_vars>>

NextBody == decode_class_data

SpecBody == InitBody /\ [][NextBody]_vars

----------------------------------------------------------------------------
(* Class::try_from_dex *)

\* A uint as <<high half, low half>>, and the number it is (offsets only).
U32(n) == <<n \div 65536, n % 65536>>
ToNat(u) == u[1] * 65536 + u[2]

\* super::NO_INDEX, 0xffff_ffff
NO_INDEX == <<65535, 65535>>

PUBLIC == 1
PRIVATE == 2
PROTECTED == 4
STATIC == 8
FINAL == 16
INTERFACE == 512
ABSTRACT == 1024
SYNTHETIC == 4096
ANNOTATION == 8192
ENUM == 16384

\* The bits of AccessFlags, and every bit of the low half of a uint.
KnownFlags == {PUBLIC, PRIVATE, PROTECTED, STATIC, FINAL, INTERFACE, ABSTRACT,
               SYNTHETIC, ANNOTATION, ENUM}
LowBits == {1, 2, 4, 8, 16, 32, 64, 128, 256, 512, 1024, 2048, 4096, 8192, 16384, 32768}

HasBit(n, b) == (n \div b) % 2 = 1

\* A from_bits that keeps the known bits and drops the others (from_bits_truncate).
from_bits_truncate(bits) ==
    Some({b \in KnownFlags : HasBit(bits[2], b)})

\* AccessFlags::from_bits(bits): the set of flags, or None when a bit outside
\* the ten flags is set.
from_bits(bits) ==
    IF bits[1] = 0 /\ \A b \in LowBits : HasBit(bits[2], b) => b \in KnownFlags
    THEN Some({b \in KnownFlags : HasBit(bits[2], b)})
    ELSE None

Res(v) == [ok |-> TRUE, val |-> v]
Failure(kind, from) == [ok |-> FALSE, err |-> [kind |-> kind, from |-> from]]

\* dex.get_type(class_idx)
get_type(dx, idx) ==
    IF idx \in dx.types THEN Res([type_id |-> idx]) ELSE Failure("InvalidId", "get_type")

\* dex.get_class_data(offset): no class data at offset 0, else the
\* ClassDataItem read at the offset.
get_class_data(dx, off) ==
    IF ToNat(off) = 0 THEN Res(None)
    ELSE IF ToNat(off) >= Len(dx.source) THEN Failure("Scroll", "get_class_data")
    ELSE Let(try_from_ctx(From(dx.source, ToNat(off))), LAMBDA r :
             IF r.ok THEN Res(Some(r.val)) ELSE Failure(r.err.kind, "get_class_data"))

\* dex.get_field(&encoded_field) and dex.get_method(&encoded_method)
get_field(dx, encoded_field) ==
    IF encoded_field.id \in dx.fields
    THEN Res([id |-> encoded_field.id, access_flags |-> encoded_field.access_flags])
    ELSE Failure("InvalidId", "get_field")

get_method(dx, encoded_method) ==
    IF encoded_method.id \in dx.methods
    THEN Res([id |-> encoded_method.id, access_flags |-> encoded_method.access_flags,
              code_off |-> encoded_method.code_off])
    ELSE Failure("InvalidId", "get_method")

\* The lookups at an offset: offset 0 stands for "nothing there".
lookup_at(table, off, absent, from) ==
    IF ToNat(off) = 0 THEN Res(absent)
    ELSE IF ToNat(off) \in DOMAIN table THEN Res(table[ToNat(off)])
    ELSE Failure("Scroll", from)

\* dex.get_static_values(offset): the empty array at offset 0
get_static_values(dx, off) == lookup_at(dx.static_values, off, <<>>, "get_static_values")

\* dex.get_annotations_directory_item(offset): None at offset 0
get_annotations_directory_item(dx, off) ==
    Let(lookup_at(dx.annotations, off, None, "get_annotations_directory_item"), LAMBDA r :
        IF r.ok /\ ToNat(off) # 0 THEN Res(Some(r.val)) ELSE r)

\* dex.get_interfaces(offset): None at offset 0
get_interfaces(dx, off) ==
    Let(lookup_at(dx.interfaces, off, None, "get_interfaces"), LAMBDA r :
        IF r.ok /\ ToNat(off) # 0 THEN Res(Some(r.val)) ELSE r)

\* dex.get_source_file(idx): None for NO_INDEX
get_source_file(dx, idx) ==
    IF idx = NO_INDEX THEN Res(None)
    ELSE IF idx \in DOMAIN dx.strings THEN Res(Some(dx.strings[idx]))
    ELSE Failure("InvalidId", "get_source_file")

\* items.into_iter().map(closure).collect::<Result<Vec<_>>>(): the entities
\* in order, or the first failure; `calls` are the lookups made.
RECURSIVE collect(_, _, _, _, _)
collect(dx, items, kind, acc, calls) ==
    IF items = <<>> THEN [ok |-> TRUE, val |-> acc, calls |-> calls]
    ELSE Let(IF kind = "field" THEN get_field(dx, Head(items))
             ELSE get_method(dx, Head(items)), LAMBDA r :
         Let(Append(calls, IF kind = "field" THEN "get_field" ELSE "get_method"), LAMBDA c :
             IF ~r.ok THEN [ok |-> FALSE, err |-> r.err, calls |-> c]
             ELSE collect(dx, Tail(items), kind, Append(acc, r.val), c)))

\* try_from_item!(item, closure): no lookup and an empty Vec for None.
try_from_item(dx, item, kind) ==
    IF item.some THEN collect(dx, item.val, kind, <<>>, <<>>)
    ELSE [ok |-> TRUE, val |-> <<>>, calls |-> <<>>]

\* A failure and the lookups made up to it.
Failed(e, calls) == [ok |-> FALSE, err |-> e, calls |-> calls]

\* A class_members that hands out the two field lists in the wrong places.
class_members_swapped(dx, data_off) ==
    Let(get_class_data(dx, data_off), LAMBDA data :
        IF ~data.ok THEN Failed(data.err, <<"get_class_data">>)
        ELSE IF ~data.val.some
        THEN [ok |-> TRUE, calls |-> <<"get_class_data">>,
              val |-> [static_fields |-> <<>>, instance_fields |-> <<>>,
                       direct_methods |-> <<>>, virtual_methods |-> <<>>]]
        ELSE
    Let(try_from_item(dx, data.val.val.static_fields, "field"), LAMBDA sf :
        IF ~sf.ok THEN Failed(sf.err, <<"get_class_data">> \o sf.calls) ELSE
    Let(try_from_item(dx, data.val.val.instance_fields, "field"), LAMBDA if :
        IF ~if.ok THEN Failed(if.err, <<"get_class_data">> \o sf.calls \o if.calls) ELSE
    Let(try_from_item(dx, data.val.val.direct_methods, "method"), LAMBDA dm :
        IF ~dm.ok
        THEN Failed(dm.err, <<"get_class_data">> \o sf.calls \o if.calls \o dm.calls) ELSE
    Let(try_from_item(dx, data.val.val.virtual_methods, "method"), LAMBDA vm :
        IF ~vm.ok
        THEN Failed(vm.err,
                    <<"get_class_data">> \o sf.calls \o if.calls \o dm.calls \o vm.calls)
        ELSE
        [ok |-> TRUE,
         calls |-> <<"get_class_data">> \o sf.calls \o if.calls \o dm.calls \o vm.calls,
         val |-> [static_fields |-> if.val, instance_fields |-> sf.val,
                  direct_methods |-> dm.val, virtual_methods |-> vm.val]])))))

\* The four member lists: dex.get_class_data(data_off)?.map(...)
\* .unwrap_or_else(four empty Vecs)?
class_members(dx, data_off) ==
    Let(get_class_data(dx, data_off), LAMBDA data :
        IF ~data.ok THEN Failed(data.err, <<"get_class_data">>)
        ELSE IF ~data.val.some
        THEN [ok |-> TRUE, calls |-> <<"get_class_data">>,
              val |-> [static_fields |-> <<>>, instance_fields |-> <<>>,
                       direct_methods |-> <<>>, virtual_methods |-> <<>>]]
        ELSE
    Let(try_from_item(dx, data.val.val.static_fields, "field"), LAMBDA sf :
        IF ~sf.ok THEN Failed(sf.err, <<"get_class_data">> \o sf.calls) ELSE
    Let(try_from_item(dx, data.val.val.instance_fields, "field"), LAMBDA if :
        IF ~if.ok THEN Failed(if.err, <<"get_class_data">> \o sf.calls \o if.calls) ELSE
    Let(try_from_item(dx, data.val.val.direct_methods, "method"), LAMBDA dm :
        IF ~dm.ok
        THEN Failed(dm.err, <<"get_class_data">> \o sf.calls \o if.calls \o dm.calls) ELSE
    Let(try_from_item(dx, data.val.val.virtual_methods, "method"), LAMBDA vm :
        IF ~vm.ok
        THEN Failed(vm.err,
                    <<"get_class_data">> \o sf.calls \o if.calls \o dm.calls \o vm.calls)
        ELSE
        [ok |-> TRUE,
         calls |-> <<"get_class_data">> \o sf.calls \o if.calls \o dm.calls \o vm.calls,
         val |-> [static_fields |-> sf.val, instance_fields |-> if.val,
                  direct_methods |-> dm.val, virtual_methods |-> vm.val]])))))

\* The super_class of the Class built from a ClassDefItem.
super_class_of(cd) ==
    IF cd.superclass_idx = NO_INDEX THEN Some(cd.superclass_idx) ELSE None

\* The lookups try_from_dex has made when it has resolved the static values,
\* the annotations, the interfaces, and all of them.
Lookups3(members) == <<"get_type">> \o members.calls \o <<"get_static_values">>
Lookups4(members) == Append(Lookups3(members), "get_annotations_directory_item")
Lookups5(members) == Append(Lookups4(members), "get_interfaces")
Lookups7(members) == Lookups5(members) \o <<"from_bits", "get_source_file">>

\* A try_from_dex that resolves the source file before it checks the access flags.
try_from_dex_source_first(dx, cd) ==
    Let(get_type(dx, cd.class_idx), LAMBDA jtype :
        IF ~jtype.ok THEN Failed(jtype.err, <<"get_type">>) ELSE
    Let(class_members(dx, cd.class_data_off), LAMBDA members :
        IF ~members.ok THEN Failed(members.err, <<"get_type">> \o members.calls) ELSE
    Let(get_static_values(dx, cd.static_values_off), LAMBDA static_values :
        IF ~static_values.ok THEN Failed(static_values.err, Lookups3(members)) ELSE
    Let(get_annotations_directory_item(dx, cd.annotations_off), LAMBDA annotations :
        IF ~annotations.ok THEN Failed(annotations.err, Lookups4(members)) ELSE
    Let(super_class_of(cd), LAMBDA super_class :
    Let(get_interfaces(dx, cd.interfaces_off), LAMBDA interfaces :
        IF ~interfaces.ok THEN Failed(interfaces.err, Lookups5(members)) ELSE
    Let(get_source_file(dx, cd.source_file_idx), LAMBDA source_file :
        IF ~source_file.ok THEN Failed(source_file.err, Append(Lookups5(members), "get_source_file")) ELSE
    Let(from_bits(cd.access_flags), LAMBDA access_flags :
        IF ~access_flags.some
        THEN Failed([kind |-> "InvalidId", from |-> "from_bits"], Lookups7(members)) ELSE
        [ok |-> TRUE, calls |-> Lookups7(members),
         val |-> [id |-> cd.class_idx,
                  jtype |-> jtype.val,
                  super_class |-> super_class,
                  interfaces |-> interfaces.val,
                  access_flags |-> access_flags.val,
                  source_file |-> source_file.val,
                  annotations |-> annotations.val,
                  static_fields |-> members.val.static_fields,
                  instance_fields |-> members.val.instance_fields,
                  direct_methods |-> members.val.direct_methods,
                  virtual_methods |-> members.val.virtual_methods,
                  static_values |-> static_values.val]]))))))))

\* Class::try_from_dex(dex, class_def): Ok with the Class or the first
\* failure; `calls` are the lookups made, in order.
try_from_dex(dx, cd) ==
    Let(get_type(dx, cd.class_idx), LAMBDA jtype :
        IF ~jtype.ok THEN Failed(jtype.err, <<"get_type">>) ELSE
    Let(class_members(dx, cd.class_data_off), LAMBDA members :
        IF ~members.ok THEN Failed(members.err, <<"get_type">> \o members.calls) ELSE
    Let(get_static_values(dx, cd.static_values_off), LAMBDA static_values :
        IF ~static_values.ok THEN Failed(static_values.err, Lookups3(members)) ELSE
    Let(get_annotations_directory_item(dx, cd.annotations_off), LAMBDA annotations :
        IF ~annotations.ok THEN Failed(annotations.err, Lookups4(members)) ELSE
    Let(super_class_of(cd), LAMBDA super_class :
    Let(get_interfaces(dx, cd.interfaces_off), LAMBDA interfaces :
        IF ~interfaces.ok THEN Failed(interfaces.err, Lookups5(members)) ELSE
    Let(from_bits(cd.access_flags), LAMBDA access_flags :
        IF ~access_flags.some
        THEN Failed([kind |-> "InvalidId", from |-> "from_bits"], Append(Lookups5(members), "from_bits")) ELSE
    Let(get_source_file(dx, cd.source_file_idx), LAMBDA source_file :
        IF ~source_file.ok THEN Failed(source_file.err, Lookups7(members)) ELSE
        [ok |-> TRUE, calls |-> Lookups7(members),
         val |-> [id |-> cd.class_idx,
                  jtype |-> jtype.val,
                  super_class |-> super_class,
                  interfaces |-> interfaces.val,
                  access_flags |-> access_flags.val,
                  source_file |-> source_file.val,
                  annotations |-> annotations.val,
                  static_fields |-> members.val.static_fields,
                  instance_fields |-> members.val.instance_fields,
                  direct_methods |-> members.val.direct_methods,
                  virtual_methods |-> members.val.virtual_methods,
                  static_values |-> static_values.val]]))))))))

(* The dex files and class_def_items try_from_dex is run on. *)

\* Where the class data starts in the source of a dex of the model.
DataStart == <<0, 1>>

\* The class bodies a dex of the model holds: member 200 is in no id table.
ClassBodies ==
    [static_fields : AscSeqs({1, 200}, ClassFields), instance_fields : {<<>>, <<1>>},
     direct_methods : {<<>>, <<200>>}, virtual_methods : {<<>>, <<1>>}]

NoBody ==
    [static_fields |-> <<>>, instance_fields |-> <<>>,
     direct_methods |-> <<>>, virtual_methods |-> <<>>]

\* A dex whose class data (at DataStart) is written from `in`, less `cut` bytes.
MkDex(in, cut) ==
    [source |-> <<0>> \o SubSeq(EncodeBody(in), 1, Len(EncodeBody(in)) - cut),
     types |-> {U32(1), U32(2), U32(3)},
     fields |-> {0, 1},
     methods |-> {0, 1},
     static_values |-> [o \in {60 + k : k \in 1..MaxStaticValues} |->
                            [i \in 1..(o - 60) |-> [value |-> i]]],
     annotations |-> [o \in {40} |-> [class_annotations_off |-> 44]],
     interfaces |-> [o \in {50} |-> <<[type_id |-> U32(2)], [type_id |-> U32(3)]>>],
     strings |-> [i \in {U32(7)} |-> "Main.java"]]

ClassDefs(data_offs) ==
    [class_idx         : {U32(1), U32(9)},
     access_flags      : {U32(17), U32(33), <<1, 1>>},
     superclass_idx    : {U32(2), NO_INDEX},
     interfaces_off    : {U32(0), U32(50), U32(51)},
     source_file_idx   : {NO_INDEX, U32(7), U32(8)},
     annotations_off   : {U32(0), U32(40), U32(41)},
     class_data_off    : data_offs,
     static_values_off : {U32(0), U32(59)} \cup {U32(60 + k) : k \in 1..MaxStaticValues}]

InitClass ==
    /\ IdleIter
    /\ IdleBody
    /\ IdleMembers
    /\ \/ \E in \in ClassBodies, cut \in {0, 1}, cd \in ClassDefs({DataStart}) :
            dex = MkDex(in, cut) /\ class_def = cd /\ cl_input = [body |-> in, cut |-> cut]
       \/ \E cd \in ClassDefs({U32(0)}) :
            dex = MkDex(NoBody, 0) /\ class_def = cd /\ cl_input = [body |-> NoBody, cut |-> 0]
    /\ cl_result = [done |-> FALSE]

\* Class::try_from_dex(&dex, &class_def)
load_class ==
    /\ ~cl_result.done
    /\ cl_result' = [done |-> TRUE, res |-> try_from_dex(dex, class_def)]
    /\ UNCHANGED <<dex, class_def, cl_input>>
    /\ UNCHANGED <<iter_vars, body_vars, member_vars>>

NextClass == load_class

SpecClass == InitClass /\ [][NextClass]_vars

----------------------------------------------------------------------------
(* Class::fields and Class::methods *)

\* slice.iter().chain(slice.iter()): the front iterator while there is one,
\* each as the position (0-based) of its next element.
chain(a, b) == [a |-> Some(0), b |-> 0]

\* Chain::next over the Vecs va and vb: the item returned and the iterator
\* afterwards.  The front iterator is dropped when it returns None.
chain_next(va, vb, it) ==
    IF it.a.some /\ it.a.val < Len(va)
    THEN [item |-> Some(va[it.a.val + 1]), it |-> [it EXCEPT !.a = Some(it.a.val + 1)]]
    ELSE IF it.b < Len(vb)
    THEN [item |-> Some(vb[it.b + 1]), it |-> [a |-> None, b |-> it.b + 1]]
    ELSE [item |-> None, it |-> [a |-> None, b |-> it.b]]

\* A fields() that chains the instance fields before the static fields.
fields_next_swapped(c, it) == chain_next(c.instance_fields, c.static_fields, it)

\* next() on the iterator of Class::fields:
\* self.static_fields().chain(self.instance_fields())
fields_next(c, it) == chain_next(c.static_fields, c.instance_fields, it)

\* next() on the iterator of Class::methods:
\* self.direct_methods().chain(self.virtual_methods())
methods_next(c, it) == chain_next(c.direct_methods, c.virtual_methods, it)

FieldList(n) == UNION {[1..k -> {[id |-> 1], [id |-> 2]}] : k \in 0..n}
MethodList == {<<>>, <<[id |-> 1]>>, <<[id |-> 2]>>}

InitMembers ==
    /\ IdleIter
    /\ IdleBody
    /\ IdleClass
    /\ class \in [static_fields : FieldList(MaxMembers), instance_fields : FieldList(MaxMembers),
                  direct_methods : MethodList, virtual_methods : MethodList]
    /\ fields_it = chain(class.static_fields, class.instance_fields)
    /\ methods_it = chain(class.direct_methods, class.virtual_methods)
    /\ fields_out = <<>>
    /\ methods_out = <<>>

\* class.fields().next()
fields ==
    /\ Len(fields_out) < Len(class.static_fields) + Len(class.instance_fields) + ExtraCalls
    /\ LET r == fields_next(class, fields_it)
       IN  /\ fields_out' = Append(fields_out, r.item)
           /\ fields_it' = r.it
    /\ UNCHANGED <<class, methods_it, methods_out>>
    /\ UNCHANGED <<iter_vars, body_vars, class_vars>>

\* class.methods().next()
methods ==
    /\ Len(methods_out) < Len(class.direct_methods) + Len(class.virtual_methods) + ExtraCalls
    /\ LET r == methods_next(class, methods_it)
       IN  /\ methods_out' = Append(methods_out, r.item)
           /\ methods_it' = r.it
    /\ UNCHANGED <<class, fields_it, fields_out>>
    /\ UNCHANGED <<iter_vars, body_vars, class_vars>>

NextMembers == fields \/ methods

SpecMembers == InitMembers /\ [][NextMembers]_vars

----------------------------------------------------------------------------
(* Properties of ClassDataItem::try_from_ctx *)

Ids(list) == IF list.some THEN [i \in 1..Len(list.val) |-> list.val[i].id] ELSE <<>>

PayloadOk(list, kind) ==
    list.some =>
        \A i \in 1..Len(list.val) :
            /\ list.val[i].access_flags = FlagsOf(list.val[i].id)
            /\ kind = "method" => list.val[i].code_off = CodeOf(list.val[i].id)

\* C8: decoding a class body written as four counts and four delta-encoded
\* arrays (static fields, instance fields, direct methods, virtual methods)
\* gives back, list by list and in order, exactly the ascending member
\* indices the deltas were taken from, with each entry's own payload, and
\* consumes exactly the bytes of the body.
C8_DeltaRoundTrip ==
    (cd_result.done /\ cd_source = EncodeBody(cd_input)) =>
        /\ cd_result.res.ok
        /\ cd_result.res.off = Len(cd_source)
        /\ Ids(cd_result.res.val.static_fields) = cd_input.static_fields
        /\ Ids(cd_result.res.val.instance_fields) = cd_input.instance_fields
        /\ Ids(cd_result.res.val.direct_methods) = cd_input.direct_methods
        /\ Ids(cd_result.res.val.virtual_methods) = cd_input.virtual_methods
        /\ PayloadOk(cd_result.res.val.static_fields, "field")
        /\ PayloadOk(cd_result.res.val.instance_fields, "field")
        /\ PayloadOk(cd_result.res.val.direct_methods, "method")
        /\ PayloadOk(cd_result.res.val.virtual_methods, "method")

C8_Witness ==
    /\ cd_result.done
    /\ cd_source = EncodeBody(cd_input)
    /\ cd_input.static_fields = <<1, 200>>
    /\ cd_input.instance_fields = <<200>>
    /\ cd_input.direct_methods = <<1>>
    /\ cd_input.virtual_methods = <<200>>
    /\ cd_result.res.ok
    /\ Ids(cd_result.res.val.static_fields) = <<1, 200>>

----------------------------------------------------------------------------
(* Properties of Class::try_from_dex *)

Returned == cl_result.done /\ cl_result.res.ok
Class == cl_result.res.val

\* C3: the Class has no super_class exactly when superclass_idx is NO_INDEX,
\* and Some(superclass_idx) otherwise.
C3_SuperClassNoneIffNoIndex ==
    Returned =>
        /\ (Class.super_class = None) <=> (class_def.superclass_idx = NO_INDEX)
        /\ class_def.superclass_idx # NO_INDEX =>
              Class.super_class = Some(class_def.superclass_idx)

\* A raw bitmask with a bit outside the ten flags.
UnknownBits(bits) ==
    \/ bits[1] # 0
    \/ \E b \in LowBits \ KnownFlags : HasBit(bits[2], b)

EarlierStepsOk ==
    /\ get_type(dex, class_def.class_idx).ok
    /\ class_members(dex, class_def.class_data_off).ok
    /\ get_static_values(dex, class_def.static_values_off).ok
    /\ get_annotations_directory_item(dex, class_def.annotations_off).ok
    /\ get_interfaces(dex, class_def.interfaces_off).ok

\* C4 as stated: access_flags with an unknown bit always gives an InvalidId
\* error, and a Class returned has only known flags.
C4_UnknownBitsInvalidId ==
    /\ (cl_result.done /\ UnknownBits(class_def.access_flags)) =>
          /\ ~cl_result.res.ok
          /\ cl_result.res.err.kind = "InvalidId"
    /\ Returned => Class.access_flags \subseteq KnownFlags

\* C4 amended: access_flags with an unknown bit never gives a Class; the
\* error is the InvalidId of the access flag check when the type lookup, the
\* class data, the static values, the annotations and the interfaces all
\* resolve, and the error of the first of those that fails otherwise.  A
\* Class returned has only known flags.
C4_UnknownBitsNoClass ==
    /\ (cl_result.done /\ UnknownBits(class_def.access_flags)) =>
          /\ ~cl_result.res.ok
          /\ EarlierStepsOk =>
                cl_result.res.err = [kind |-> "InvalidId", from |-> "from_bits"]
          /\ ~EarlierStepsOk => cl_result.res.err.from # "from_bits"
    /\ Returned =>
          /\ Class.access_flags \subseteq KnownFlags
          /\ ~UnknownBits(class_def.access_flags)

C4_Witness ==
    /\ cl_result.done
    /\ class_def.access_flags = U32(33)
    /\ ~cl_result.res.ok
    /\ cl_result.res.err = [kind |-> "InvalidId", from |-> "from_bits"]
    /\ class_def.source_file_idx = U32(8)

\* C5: a Class returned has no more static values than static fields.
C5_StaticValuesWithinFields ==
    Returned => Len(Class.static_values) <= Len(Class.static_fields)

HasCall(names) == \E i \in 1..Len(cl_result.res.calls) : cl_result.res.calls[i] \in names

\* C7: with class_data_off = 0 no field or method is looked up, the class
\* body is not a cause of failure, and the Class returned has four empty
\* member lists; with a class body, every member list of the Class returned
\* has as many entries as the body counts for it, so none for a count of 0.
C7_NoBodyNoMembers ==
    cl_result.done =>
        /\ class_def.class_data_off = U32(0) =>
              /\ ~HasCall({"get_field", "get_method"})
              /\ ~cl_result.res.ok =>
                    cl_result.res.err.from \notin {"get_class_data", "get_field", "get_method"}
              /\ cl_result.res.ok =>
                    /\ Class.static_fields = <<>>
                    /\ Class.instance_fields = <<>>
                    /\ Class.direct_methods = <<>>
                    /\ Class.virtual_methods = <<>>
        /\ (class_def.class_data_off # U32(0) /\ cl_result.res.ok) =>
              /\ Len(Class.static_fields) = Len(cl_input.body.static_fields)
              /\ Len(Class.instance_fields) = Len(cl_input.body.instance_fields)
              /\ Len(Class.direct_methods) = Len(cl_input.body.direct_methods)
              /\ Len(Class.virtual_methods) = Len(cl_input.body.virtual_methods)

C7_Witness ==
    /\ Returned
    /\ class_def.class_data_off = U32(0)
    /\ class_def.static_values_off # U32(0)
    /\ Class.static_fields = <<>> /\ Class.instance_fields = <<>>
    /\ Class.direct_methods = <<>> /\ Class.virtual_methods = <<>>

\* The steps of try_from_dex in the order of C10, each with the lookups it
\* makes and whether it succeeds on its own.
StepCalls ==
    <<{"get_type"}, {"get_class_data", "get_field", "get_method"}, {"get_static_values"},
      {"get_annotations_directory_item"}, {"get_interfaces"}, {"from_bits"},
      {"get_source_file"}>>

StepResult ==
    <<get_type(dex, class_def.class_idx),
      class_members(dex, class_def.class_data_off),
      get_static_values(dex, class_def.static_values_off),
      get_annotations_directory_item(dex, class_def.annotations_off),
      get_interfaces(dex, class_def.interfaces_off),
      IF from_bits(class_def.access_flags).some THEN Res(0)
      ELSE Failure("InvalidId", "from_bits"),
      get_source_file(dex, class_def.source_file_idx)>>

Steps == 1..Len(StepCalls)
Failing(results) == {j \in Steps : ~results[j].ok}
First(failing) == CHOOSE j \in failing : \A k \in failing : j <= k

\* C10: try_from_dex returns a Class exactly when every step succeeds;
\* otherwise it returns the error of the first step that fails, in the order
\* type lookup, class body, static values, annotations directory,
\* interfaces, access flags, source file, having performed every step up to
\* that one and none after it.
C10_FirstFailureWins ==
    cl_result.done =>
        LET results == StepResult
            failing == Failing(results)
            first == First(failing)
        IN  /\ cl_result.res.ok <=> failing = {}
            /\ ~cl_result.res.ok =>
                  /\ failing # {}
                  /\ cl_result.res.err = results[first].err
                  /\ cl_result.res.err.from \in StepCalls[first]
                  /\ DOMAIN cl_result.res = {"ok", "err", "calls"}
                  /\ \A j \in Steps : HasCall(StepCalls[j]) <=> j <= first

C10_Witness ==
    /\ cl_result.done
    /\ Failing(StepResult) = {3, 6, 7}
    /\ cl_result.res.err.from = "get_static_values"
    /\ ~HasCall({"from_bits", "get_source_file"})

----------------------------------------------------------------------------
(* Properties of Class::fields and Class::methods *)

\* What an iterator has returned is, call by call, the elements of `all` in
\* order and then None for ever.
YieldsInOrder(out, all) ==
    \A i \in 1..Len(out) :
        IF i <= Len(all) THEN out[i] = Some(all[i]) ELSE out[i] = None

\* C9: fields() yields the static fields in stored order and then the
\* instance fields in stored order, |static_fields| + |instance_fields| items
\* in all, and then ends; methods() does the same with the direct and the
\* virtual methods.
C9_MembersChained ==
    /\ YieldsInOrder(fields_out, class.static_fields \o class.instance_fields)
    /\ YieldsInOrder(methods_out, class.direct_methods \o class.virtual_methods)
    /\ Cardinality({i \in 1..Len(fields_out) : fields_out[i].some})
         <= Len(class.static_fields) + Len(class.instance_fields)

C9_Witness ==
    /\ class.static_fields = <<[id |-> 2], [id |-> 1]>>
    /\ class.instance_fields = <<[id |-> 1], [id |-> 2]>>
    /\ Len(fields_out) = 5
    /\ fields_out[4] = Some([id |-> 2])
    /\ fields_out[5] = None
    /\ class.direct_methods = <<[id |-> 2]>>
    /\ class.virtual_methods = <<[id |-> 1]>>
    /\ Len(methods_out) = 3

----------------------------------------------------------------------------
(* Properties of ClassDefItemIter *)

Calls == 1..Len(it_items)
IsOk(i) == it_items[i].some /\ it_items[i].res.ok
IsErr(i) == it_items[i].some /\ ~it_items[i].res.ok
IsNone(i) == ~it_items[i].some
Yielded == Cardinality({i \in Calls : it_items[i].some})

\* The complete records the buffer holds from the start offset.
CompleteRecords ==
    IF Len(it_source) <= new_offset THEN 0
    ELSE (Len(it_source) - new_offset) \div RecordSize

\* C1: with len = n and n complete records in the buffer from the start
\* offset, the first n calls of next() yield Ok of the record at
\* start + 32*i (i = 0 .. n-1), every later call returns None, and the
\* remaining count falls by one per yielded item and is never negative.
C1_YieldsExactlyLen ==
    CompleteRecords >= new_len =>
        /\ \A i \in Calls :
              IF i <= new_len
              THEN /\ IsOk(i)
                   /\ it_items[i].res.val =
                        ReadClassDefItem(it_source, new_offset + RecordSize * (i - 1),
                                         it_endian)
              ELSE IsNone(i)
        /\ it_len = new_len - Yielded
        /\ it_len >= 0

C1_Witness ==
    /\ CompleteRecords >= new_len
    /\ new_len = 3
    /\ new_offset > 0
    /\ Len(it_items) = 5
    /\ IsOk(3) /\ IsNone(4) /\ IsNone(5)

\* C2 as stated: after a call of next() that yields an Err, the next call
\* starts at the slot 32 bytes after the one that failed.
C2_NextSlotAfterError ==
    \A i \in Calls :
        (IsErr(i) /\ i < Len(it_items)) => it_offs[i + 1] = it_offs[i] + RecordSize

\* C2 amended: a call of next() that fails yields the failure as an Err item
\* and takes one from the remaining count, but leaves the offset where it
\* was; while the count is not exhausted the following call reads the same
\* slot again and yields the same error.
C2_ErrorKeepsOffset ==
    \A i \in Calls :
        IsErr(i) =>
            /\ it_lens[i] > 0
            /\ i < Len(it_items) =>
                  /\ it_lens[i + 1] = it_lens[i] - 1
                  /\ it_offs[i + 1] = it_offs[i]
                  /\ it_lens[i + 1] > 0 => it_items[i + 1] = it_items[i]
                  /\ it_lens[i + 1] = 0 => IsNone(i + 1)

C2_Witness ==
    /\ Len(it_items) >= 3
    /\ IsOk(1) /\ IsErr(2) /\ IsErr(3)
    /\ it_offs[3] = it_offs[2]

\* C6: with len = n and only k < n complete records in the buffer from the
\* start offset, the first k calls yield Ok, call k+1 yields an Err that
\* scroll raised for a read past the end (BadOffset or TooBig), and no call
\* reads a byte outside the buffer or takes the count below zero.
C6_TruncatedRecordIsErr ==
    /\ it_read <= Len(it_source)
    /\ it_len >= 0
    /\ CompleteRecords < new_len =>
          \A i \in Calls :
              /\ i <= CompleteRecords => IsOk(i)
              /\ i = CompleteRecords + 1 =>
                    /\ IsErr(i)
                    /\ it_items[i].res.err.kind = "Scroll"
                    /\ it_items[i].res.err.why \in {"BadOffset", "TooBig"}

C6_Witness ==
    /\ CompleteRecords = 2
    /\ new_len = 4
    /\ (Len(it_source) - new_offset) % RecordSize # 0
    /\ Len(it_items) >= 3
    /\ IsOk(2) /\ IsErr(3)
    /\ it_items[3].res.err.why = "TooBig"

====
